---- MODULE Spec2Model ----
(***************************************************************************)
(* GLOM Auth API (src/index.js): POST /login with HWID binding over a      *)
(* JSON file (users.json).                                                  *)
(*                                                                          *)
(* The server is one Node.js process.  The /login callback uses only       *)
(* synchronous calls (existsSync, readFileSync, writeFileSync), so one     *)
(* invocation runs to completion before the event loop starts the next:    *)
(* a request is one atomic step.  Requests that are in flight at the same  *)
(* time are handled in an arbitrary order.                                  *)
(*                                                                          *)
(* Strings are sequences of characters, so that String.prototype.trim is   *)
(* computed and not assumed.  A JavaScript value is a record               *)
(* [t, s, n]: its type tag, its characters (strings) and its number.       *)
(***************************************************************************)
EXTENDS Integers, Sequences, FiniteSets, TLC

\* Longest hwid string the requests carry.
MaxHwidLen == 2

\* Number of concurrent first logins issued in SpecBatch.
BatchSize == 3

(***************************************************************************)
(* JavaScript values                                                        *)
(***************************************************************************)
Undef == [t |-> "undefined", s |-> <<>>, n |-> 0]

Num(k) == [t |-> "number", s |-> <<>>, n |-> k]

Str(chars) == [t |-> "string", s |-> chars, n |-> 0]

\* `!v`: undefined, 0 and "" are falsy.
Falsy(v) ==
  \/ v.t = "undefined"
  \/ v.t = "number" /\ v.n = 0
  \/ v.t = "string" /\ v.s = <<>>

\* `typeof v === "string"`
IsString(v) == v.t = "string"

\* White space as String.prototype.trim sees it.
IsSpace(c) == c = " "

RECURSIVE trimStart(_)
trimStart(chars) ==
  IF chars # <<>> /\ IsSpace(Head(chars)) THEN trimStart(Tail(chars)) ELSE chars

RECURSIVE trimEnd(_)
trimEnd(chars) ==
  IF chars # <<>> /\ IsSpace(chars[Len(chars)])
  THEN trimEnd(SubSeq(chars, 1, Len(chars) - 1))
  ELSE chars

\* str.trim()
trim(chars) == trimEnd(trimStart(chars))

(***************************************************************************)
(* Input domains                                                            *)
(***************************************************************************)
\* k blanks.
Blanks(k) == [i \in 1..k |-> " "]

\* The device id "x" with blanks around it, no longer than k.
Padded(k) ==
  {Blanks(i) \o <<"x">> \o Blanks(j) : i \in 0..k, j \in 0..k} \cap UNION {[1..n -> {" ", "x"}] : n \in 0..k}

\* The hwid strings of the requests: blank strings, the device id "x" with
\* blanks around it, and a second device id "y".
HwidStrings ==
  {Blanks(i) : i \in 0..MaxHwidLen} \cup Padded(MaxHwidLen) \cup {<<"y">>}

alice == <<"a">>
bob == <<"b">>
pwAlice == <<"p">>
pwBob == <<"q">>

\* The accounts users.json is provisioned with.
Accounts == {alice, bob}

PasswordOf(name) == IF name = alice THEN pwAlice ELSE pwBob

\* username and password of a request: one of them absent or empty, or a
\* provisioned username with its own or the other account's password.  An
\* unknown username is one the store at hand has no record for.
Credentials ==
  {<<Undef, Undef>>}
  \cup {<<u, Str(pwAlice)>> : u \in {Undef, Str(<<>>)}}
  \cup {<<Str(alice), p>> : p \in {Undef, Str(<<>>)}}
  \cup {<<Str(a), Str(p)>> : a \in Accounts, p \in {pwAlice, pwBob}}

ReqHwids == {Undef, Num(7)} \cup {Str(w) : w \in HwidStrings}

\* req.body after express.json(): the three fields the handler destructures.
Requests ==
  {[username |-> c[1], password |-> c[2], hwid |-> h] : c \in Credentials, h \in ReqHwids}

\* hwid of a provisioned record: key absent, "", white space, or a device id.
\* users.json is taken to hold a document { users: [...] } whose records carry
\* string usernames and passwords and an hwid that is absent or a string (the
\* handler throws on any other shape: data.users.find, user.hwid.trim).
ProvisionedHwids == {Undef, Str(<<>>), Str(<<" ">>), Str(<<"x">>)}

UserRecord(name, hwid) ==
  [username |-> Str(name), password |-> Str(PasswordOf(name)), hwid |-> hwid]

\* { users: [...] } documents with at most one record per username.
ProvisionedStores ==
  {<<>>}
  \cup {<<UserRecord(a, h)>> : a \in Accounts, h \in ProvisionedHwids}
  \cup {<<UserRecord(alice, h1), UserRecord(bob, h2)>> :
          h1 \in ProvisionedHwids, h2 \in ProvisionedHwids}

(***************************************************************************)
(* users.json                                                               *)
(***************************************************************************)
\* No file at DATA_FILE.
Absent == [kind |-> "absent", users |-> <<>>]

\* A file whose bytes cannot be read or are not a JSON document: a file
\* truncated by a write that failed part-way is one.
Corrupt == [kind |-> "corrupt", users |-> <<>>]

\* JSON.stringify(data, null, 2): the text of the document { users: [...] }.
\* A key whose value is undefined is left out, and reads back as undefined.
Stringify(data) == [kind |-> "json", users |-> data.users]

VARIABLES
  file,        \* content of users.json
  last,        \* the request handled last and its response
  registered,  \* per account: the hwid a HWID_REGISTERED response was sent for
  inflight     \* requests issued concurrently and not yet handled (SpecBatch)

vars == <<file, last, registered, inflight>>

(***************************************************************************)
(* loadUsers / saveUsers                                                    *)
(***************************************************************************)
\* What fs.readFileSync can do on a file that exists: return its text, or
\* throw (no free descriptor, EIO, EACCES) whatever the file holds.
ReadOutcomes == {"read", "read_failed"}

\* Mutant: without a readable document the fallback is a built-in user list.
loadUsers_defaultUsers(f, r) ==
  IF f.kind = "json" /\ r # "read_failed" THEN [users |-> f.users]
  ELSE [users |-> <<UserRecord(alice, Undef)>>]

\* existsSync false: the empty store, without a read. Otherwise the catch
\* returns the empty store when readFileSync throws (r) or JSON.parse does.
loadUsers(f, r) ==
  IF f.kind = "absent" THEN [users |-> <<>>]
  ELSE IF r = "read_failed" THEN [users |-> <<>>]
  ELSE IF f.kind = "corrupt" THEN [users |-> <<>>]
  ELSE [users |-> f.users]

\* What fs.writeFileSync can do: write everything; throw from open (the file
\* keeps its content); throw from write after open(O_TRUNC) emptied the file;
\* throw from close after the whole document was written.
WriteOutcomes == {"written", "open_failed", "write_failed", "close_failed"}

\* true when writeFileSync returns, false from the catch when it throws.
saveUsers(data, f, w) ==
  IF w = "written" THEN [ok |-> TRUE, file |-> Stringify(data)]
  ELSE IF w = "open_failed" THEN [ok |-> FALSE, file |-> f]
  ELSE IF w = "close_failed" THEN [ok |-> FALSE, file |-> Stringify(data)]
  ELSE [ok |-> FALSE, file |-> Corrupt]

(***************************************************************************)
(* POST /login                                                              *)
(***************************************************************************)
\* data.users.find(u => u.username === username): index of the first match, 0 if none.
find(users, username) ==
  LET hits == {i \in DOMAIN users : users[i].username = username}
  IN  IF hits = {} THEN 0 ELSE CHOOSE i \in hits : \A j \in hits : i <= j

\* Mutant: && written for ||.
missingFields_both(req) == Falsy(req.username) /\ Falsy(req.password)

\* !username || !password
missingFields(req) == Falsy(req.username) \/ Falsy(req.password)

\* Mutant: the hwid is not trimmed before its length is tested.
hwidRequired_noTrim(req) ==
  \/ Falsy(req.hwid)
  \/ ~IsString(req.hwid)
  \/ Len(req.hwid.s) = 0

\* !hwid || typeof hwid !== "string" || hwid.trim().length === 0
hwidRequired(req) ==
  \/ Falsy(req.hwid)
  \/ ~IsString(req.hwid)
  \/ Len(trim(req.hwid.s)) = 0

\* Mutant: the password comparison is left out.
invalidCredentials_noPassword(users, i, req) == i = 0

\* !user || user.password !== password
invalidCredentials(users, i, req) ==
  \/ i = 0
  \/ users[i].password # req.password

\* Mutant: the hwid is registered without testing that the record has none.
hwidUnbound_noCheck(user) == TRUE

\* !user.hwid || user.hwid.trim().length === 0
hwidUnbound(user) == Falsy(user.hwid) \/ Len(trim(user.hwid.s)) = 0

\* Mutant: both hwids are trimmed before they are compared.
hwidMismatch_trimmed(user, req) == trim(user.hwid.s) # trim(req.hwid.s)

\* Mutant: the supplied hwid is trimmed before it is compared.
hwidMismatch_trimsRequest(user, req) == user.hwid.s # trim(req.hwid.s)

\* user.hwid !== hwid
hwidMismatch(user, req) == user.hwid # req.hwid

Response(status, code, f, loads, saves) ==
  [status |-> status, success |-> code \in {"OK", "HWID_REGISTERED"}, code |-> code,
   file |-> f, loads |-> loads, saves |-> saves]

\* Mutant: the hwid of an unbound record is saved before the password is
\* compared.
login_registersFirst(req, f, r, w) ==
  IF missingFields(req) THEN Response(400, "MISSING_FIELDS", f, 0, 0)
  ELSE IF hwidRequired(req) THEN Response(400, "HWID_REQUIRED", f, 0, 0)
  ELSE
    LET data == loadUsers(f, r)
        i == find(data.users, req.username)
    IN  IF i = 0 THEN Response(401, "INVALID_CREDENTIALS", f, 1, 0)
        ELSE IF hwidUnbound(data.users[i])
        THEN LET mutated == [users |-> [data.users EXCEPT ![i].hwid = req.hwid]]
                 saved == saveUsers(mutated, f, w)
             IN  IF invalidCredentials(data.users, i, req)
                 THEN Response(401, "INVALID_CREDENTIALS", saved.file, 1, 1)
                 ELSE IF ~saved.ok
                 THEN Response(500, "SERVER_ERROR", saved.file, 1, 1)
                 ELSE Response(200, "HWID_REGISTERED", saved.file, 1, 1)
        ELSE IF invalidCredentials(data.users, i, req)
        THEN Response(401, "INVALID_CREDENTIALS", f, 1, 0)
        ELSE IF hwidMismatch(data.users[i], req)
        THEN Response(403, "HWID_MISMATCH", f, 1, 0)
        ELSE Response(200, "OK", f, 1, 0)

\* The handler on request req, with users.json holding f, when the read it
\* attempts ends as r and the write it attempts ends as w.
login(req, f, r, w) ==
  IF missingFields(req) THEN Response(400, "MISSING_FIELDS", f, 0, 0)
  ELSE IF hwidRequired(req) THEN Response(400, "HWID_REQUIRED", f, 0, 0)
  ELSE
    LET data == loadUsers(f, r)
        i == find(data.users, req.username)
    IN  IF invalidCredentials(data.users, i, req)
        THEN Response(401, "INVALID_CREDENTIALS", f, 1, 0)
        ELSE IF hwidUnbound(data.users[i])
        THEN LET mutated == [users |-> [data.users EXCEPT ![i].hwid = req.hwid]]
                 saved == saveUsers(mutated, f, w)
             IN  IF ~saved.ok
                 THEN Response(500, "SERVER_ERROR", saved.file, 1, 1)
                 ELSE Response(200, "HWID_REGISTERED", saved.file, 1, 1)
        ELSE IF hwidMismatch(data.users[i], req)
        THEN Response(403, "HWID_MISMATCH", f, 1, 0)
        ELSE Response(200, "OK", f, 1, 0)

NoRequest == [username |-> Undef, password |-> Undef, hwid |-> Undef]

NoLast ==
  [req |-> NoRequest, read |-> "none", write |-> "none", before |-> Absent, code |-> "NONE", status |-> 0,
   success |-> FALSE, loads |-> 0, saves |-> 0, regBefore |-> Undef, repeatOfOK |-> FALSE]

\* The account a request names, if it names one.
AccountOf(req) == IF IsString(req.username) THEN req.username.s ELSE <<>>

\* TRUE iff the handler reaches readFileSync on req with users.json holding
\* f: the request passes both checks and the file exists.
reachesRead(req, f) ==
  /\ ~missingFields(req)
  /\ ~hwidRequired(req)
  /\ f.kind # "absent"

\* TRUE iff the handler reaches saveUsers on req with users.json holding f,
\* when its read ends as r.
reachesSave(req, f, r) == login(req, f, r, "written").saves = 1

\* One request handled from start to response; r is how the read ends and w
\* how the write ends, if the handler attempts them.
Handle(req, r, w) ==
  \E resp \in {login(req, file, r, w)} :
    \E acct \in {AccountOf(req)} :
      /\ file' = resp.file
      /\ last' = [req |-> req, read |-> r, write |-> w, before |-> file,
                  code |-> resp.code, status |-> resp.status, success |-> resp.success,
                  loads |-> resp.loads, saves |-> resp.saves,
                  regBefore |-> IF acct \in Accounts THEN registered[acct] ELSE Undef,
                  repeatOfOK |-> last.code = "OK" /\ last.req = req]
      /\ registered' =
           IF resp.code = "HWID_REGISTERED" /\ acct \in Accounts
           THEN [registered EXCEPT ![acct] = req.hwid]
           ELSE registered

\* POST /login with an arbitrary body.
Login ==
  /\ inflight = {}
  /\ \E req \in Requests :
       \E r \in IF reachesRead(req, file) THEN ReadOutcomes ELSE {"none"} :
         \E w \in IF reachesSave(req, file, r) THEN WriteOutcomes ELSE {"none"} :
           Handle(req, r, w)
  /\ UNCHANGED inflight

Init ==
  /\ file \in {Absent, Corrupt} \cup {Stringify([users |-> u]) : u \in ProvisionedStores}
  /\ last = NoLast
  /\ registered = [a \in Accounts |-> Undef]
  /\ inflight = {}

Next == Login

Spec == Init /\ [][Next]_vars

(***************************************************************************)
(* BatchSize first logins issued at once for one unbound account            *)
(***************************************************************************)
\* Correct credentials for alice, with an hwid that passes the hwid check.
FirstLogins ==
  {[username |-> Str(alice), password |-> Str(pwAlice), hwid |-> Str(w)] :
     w \in {v \in HwidStrings : trim(v) # <<>>}}

\* Stores in which alice is unbound.
UnboundStores ==
  {<<UserRecord(alice, h)>> : h \in {Undef, Str(<<>>), Str(<<" ">>)}}
  \cup {<<UserRecord(alice, h), UserRecord(bob, Undef)>> : h \in {Undef, Str(<<>>), Str(<<" ">>)}}

InitBatch ==
  /\ file \in {Stringify([users |-> u]) : u \in UnboundStores}
  /\ last = NoLast
  /\ registered = [a \in Accounts |-> Undef]
  /\ inflight \in {[req : S, code : {"PENDING"}] : S \in {T \in SUBSET FirstLogins : Cardinality(T) = BatchSize}}

\* The event loop starts the callback for one of the requests in flight; the
\* callback runs to its response before any other starts.
HandleInFlight ==
  \E b \in {c \in inflight : c.code = "PENDING"} :
    \E r \in IF reachesRead(b.req, file) THEN ReadOutcomes ELSE {"none"} :
      \E w \in IF reachesSave(b.req, file, r) THEN WriteOutcomes ELSE {"none"} :
        /\ Handle(b.req, r, w)
        /\ inflight' = (inflight \ {b}) \cup {[req |-> b.req, code |-> last'.code]}

NextBatch == HandleInFlight

SpecBatch == InitBatch /\ [][NextBatch]_vars

(***************************************************************************)
(* Vocabulary of the properties                                             *)
(***************************************************************************)
\* What a load of users.json shows for an account that has no record.
NoRecord == [t |-> "norecord", s |-> <<>>, n |-> 0]

\* The hwid a load that reads users.json holding f shows for the account.
DurableHwid(f, name) ==
  LET users == loadUsers(f, "read").users
      i == find(users, Str(name))
  IN  IF i = 0 THEN NoRecord ELSE users[i].hwid

\* A field that is absent or the empty string.
AbsentOrEmpty(v) == v.t = "undefined" \/ (v.t = "string" /\ Len(v.s) = 0)

\* A string made of white space only (the empty string is one).
Blank(v) == v.t = "string" /\ \A k \in DOMAIN v.s : v.s[k] = " "

\* An empty hwid field of a record: absent, empty or white space only.
EmptyHwid(h) == h.t = "undefined" \/ Blank(h)

\* A bound hwid: a string with something else than white space in it.
BoundHwid(h) == h.t = "string" /\ ~Blank(h)

\* The records a document holds; none when there is no readable document.
RecordsIn(f) == IF f.kind = "json" THEN {f.users[k] : k \in DOMAIN f.users} ELSE {}

\* The records of f with the request's username and password.
Matching(f, req) ==
  {u \in RecordsIn(f) : u.username = req.username /\ u.password = req.password}

\* The last request carried a username, a password and a usable hwid.
PassedValidation ==
  /\ last.code # "NONE"
  /\ ~AbsentOrEmpty(last.req.username)
  /\ ~AbsentOrEmpty(last.req.password)
  /\ BoundHwid(last.req.hwid)

\* The last request's read of users.json failed.
ReadFailed == last.read = "read_failed"

\* The last request's write failed.
WriteFailed == last.write \in {"open_failed", "write_failed", "close_failed"}

(***************************************************************************)
(* C1                                                                       *)
(***************************************************************************)
\* C1: over any sequence of logins, with writes succeeding or failing, the hwid
\* the durable store shows for a record changes at most once, from empty to
\* non-empty, and never afterwards.
C1_HwidChangesAtMostOnce ==
  [][\A a \in Accounts :
       DurableHwid(file', a) # DurableHwid(file, a)
         => /\ EmptyHwid(DurableHwid(file, a))
            /\ BoundHwid(DurableHwid(file', a))]_vars

(***************************************************************************)
(* C2 (SpecBatch)                                                           *)
(***************************************************************************)
BatchHwids == {b.req.hwid : b \in inflight}

AllAnswered == inflight # {} /\ \A b \in inflight : b.code # "PENDING"

Answered(code) == {b \in inflight : b.code = code}

\* C2 as stated: when the BatchSize concurrent first logins have all been
\* answered, exactly one of their hwids is durably bound to the account.
C2_ExactlyOneBound == AllAnswered => DurableHwid(file, alice) \in BatchHwids

\* What holds of the batch in every state: at most one request is answered
\* HWID_REGISTERED and the store shows its hwid; an hwid of the batch that the
\* store shows is the one of a request that reached its write (answered
\* HWID_REGISTERED or SERVER_ERROR); when all are answered and no hwid of the
\* batch is bound, every request failed at its read (INVALID_CREDENTIALS, also
\* after a write tore the file) or at its write (SERVER_ERROR).
BatchBinding ==
  /\ Cardinality(Answered("HWID_REGISTERED")) <= 1
  /\ \A b \in Answered("HWID_REGISTERED") : DurableHwid(file, alice) = b.req.hwid
  /\ \A b \in inflight :
       DurableHwid(file, alice) = b.req.hwid => b.code \in {"HWID_REGISTERED", "SERVER_ERROR"}
  /\ (AllAnswered /\ DurableHwid(file, alice) \notin BatchHwids)
       => \A b \in inflight : b.code \in {"SERVER_ERROR", "INVALID_CREDENTIALS"}

\* C2 amended: the concurrent first logins are handled one after the other;
\* at most one is answered HWID_REGISTERED; once the store shows an hwid of
\* the batch no other request of the batch overwrites it; and exactly one hwid
\* ends up bound unless every request failed at its read or at its write.
C2_AtMostOneBound ==
  /\ BatchBinding
  /\ (last.code # "NONE" /\ DurableHwid(last.before, alice) \in BatchHwids)
       => DurableHwid(file, alice) = DurableHwid(last.before, alice)

\* A failed write, then a registration, then a rejected device.
C2_Witness ==
  /\ AllAnswered
  /\ Answered("SERVER_ERROR") # {}
  /\ Answered("HWID_REGISTERED") # {}
  /\ Answered("HWID_MISMATCH") # {}

(***************************************************************************)
(* C3                                                                       *)
(***************************************************************************)
\* C3: once a login was answered HWID_REGISTERED for hwid h on an account, no
\* later login on that account with another hwid is answered OK or
\* HWID_REGISTERED.
C3_OtherDeviceRejected ==
  (last.regBefore # Undef /\ last.req.hwid # last.regBefore) => ~last.success

C3_Witness ==
  /\ last.regBefore # Undef
  /\ last.req.hwid # last.regBefore
  /\ last.code = "HWID_MISMATCH"

(***************************************************************************)
(* C4                                                                       *)
(***************************************************************************)
\* The decision table as C4 words it.
StatedOutcome(req, f) ==
  IF AbsentOrEmpty(req.username) \/ AbsentOrEmpty(req.password) THEN "MISSING_FIELDS"
  ELSE IF AbsentOrEmpty(req.hwid) \/ req.hwid.t # "string" THEN "HWID_REQUIRED"
  ELSE IF Matching(f, req) = {} THEN "INVALID_CREDENTIALS"
  ELSE IF \E u \in Matching(f, req) : AbsentOrEmpty(u.hwid) THEN "HWID_REGISTERED"
  ELSE IF \E u \in Matching(f, req) : u.hwid # req.hwid THEN "HWID_MISMATCH"
  ELSE "OK"

\* The decision table with white space counted as empty, the failed read and
\* the failed write.
AmendedOutcome(req, f, read, write) ==
  IF AbsentOrEmpty(req.username) \/ AbsentOrEmpty(req.password) THEN "MISSING_FIELDS"
  ELSE IF ~BoundHwid(req.hwid) THEN "HWID_REQUIRED"
  ELSE IF read = "read_failed" \/ Matching(f, req) = {} THEN "INVALID_CREDENTIALS"
  ELSE IF \E u \in Matching(f, req) : EmptyHwid(u.hwid)
       THEN IF write = "written" THEN "HWID_REGISTERED" ELSE "SERVER_ERROR"
  ELSE IF \E u \in Matching(f, req) : u.hwid # req.hwid THEN "HWID_MISMATCH"
  ELSE "OK"

\* C4 as stated: every request gets the outcome of the first matching rule of
\* MISSING_FIELDS, HWID_REQUIRED (hwid absent, empty or not a string),
\* INVALID_CREDENTIALS, HWID_REGISTERED (record's hwid empty), HWID_MISMATCH, OK.
C4_FirstMatchingRule ==
  last.code # "NONE" => last.code = StatedOutcome(last.req, last.before)

\* C4 amended: the same order, where a white-space-only hwid counts as empty
\* in the request (HWID_REQUIRED) and in the record (registration), no record
\* is found when the read of users.json fails, and the registration rule
\* yields SERVER_ERROR when its write fails.
C4_FirstMatchingRuleAmended ==
  last.code # "NONE"
    => last.code = AmendedOutcome(last.req, last.before, last.read, last.write)

\* A record provisioned with a white-space hwid is registered.
C4_Witness ==
  /\ last.code = "HWID_REGISTERED"
  /\ DurableHwid(last.before, AccountOf(last.req)) = Str(<<" ">>)

(***************************************************************************)
(* C5                                                                       *)
(***************************************************************************)
\* C5: when the write of a registration fails, the outcome is SERVER_ERROR and
\* the durable store is as it was before the request.
C5_FailedPersistLeavesStore ==
  WriteFailed => (last.code = "SERVER_ERROR" /\ file = last.before)

(***************************************************************************)
(* C6                                                                       *)
(***************************************************************************)
\* The last request was a first login: correct credentials, a usable hwid,
\* on an account whose stored hwid is empty.
FirstLogin ==
  /\ PassedValidation
  /\ \E u \in Matching(last.before, last.req) : EmptyHwid(u.hwid)

\* C6: a first login whose write succeeds is answered HWID_REGISTERED, and
\* every load of the store after a HWID_REGISTERED response shows the account
\* with the hwid of that request.
C6_RegisteredStaysVisible ==
  /\ (FirstLogin /\ ~WriteFailed) => last.code = "HWID_REGISTERED"
  /\ \A a \in Accounts : registered[a] # Undef => DurableHwid(file, a) = registered[a]

(***************************************************************************)
(* C7                                                                       *)
(***************************************************************************)
\* The last request: correct credentials and a usable hwid, on an account
\* bound to another hwid.
OtherDeviceLogin ==
  /\ PassedValidation
  /\ \E u \in Matching(last.before, last.req) : BoundHwid(u.hwid) /\ u.hwid # last.req.hwid

\* C7 as stated: a login with correct credentials on a bound account with
\* another hwid is answered HWID_MISMATCH, writes nothing and leaves the store
\* as it was.
C7_MismatchLeavesStore ==
  OtherDeviceLogin => (last.code = "HWID_MISMATCH" /\ last.saves = 0 /\ file = last.before)

\* C7 amended: such a login is answered HWID_MISMATCH when its load reads the
\* file and INVALID_CREDENTIALS when the read fails; in both cases it writes
\* nothing and leaves the store as it was.
C7_MismatchLeavesStoreAmended ==
  OtherDeviceLogin
    => /\ last.code = IF ReadFailed THEN "INVALID_CREDENTIALS" ELSE "HWID_MISMATCH"
       /\ last.saves = 0
       /\ file = last.before

\* The account is bound to "x" and the request carries "x ".
C7_Witness ==
  /\ OtherDeviceLogin
  /\ last.code = "HWID_MISMATCH"
  /\ DurableHwid(last.before, AccountOf(last.req)) = Str(<<"x">>)
  /\ last.req.hwid = Str(<<"x", " ">>)

(***************************************************************************)
(* C8                                                                       *)
(***************************************************************************)
\* The last request: correct credentials and the hwid the account is bound to.
SameDeviceLogin ==
  /\ PassedValidation
  /\ \E u \in Matching(last.before, last.req) : BoundHwid(u.hwid) /\ u.hwid = last.req.hwid

\* C8 as stated: a login with correct credentials and the bound hwid is
\* answered OK; repeating a request that was answered OK is answered OK again;
\* neither writes to the store or changes it.
C8_OkIsIdempotent ==
  (SameDeviceLogin \/ last.repeatOfOK)
    => (last.code = "OK" /\ last.saves = 0 /\ file = last.before)

\* C8 amended: such a login, first or repeated, is answered OK when its load
\* reads the file and INVALID_CREDENTIALS when the read fails; it never writes
\* to the store or changes it.
C8_OkIsIdempotentAmended ==
  (SameDeviceLogin \/ last.repeatOfOK)
    => /\ last.code = IF ReadFailed THEN "INVALID_CREDENTIALS" ELSE "OK"
       /\ last.saves = 0
       /\ file = last.before

\* The OK request repeated, on an hwid the login path registered untrimmed.
C8_Witness ==
  /\ last.repeatOfOK
  /\ last.code = "OK"
  /\ last.regBefore = Str(<<" ", "x">>)

(***************************************************************************)
(* C9                                                                       *)
(***************************************************************************)
\* The last request passed the field checks and names no record, or a record
\* with another password.
BadCredentials == PassedValidation /\ Matching(last.before, last.req) = {}

\* C9: an unknown username or a wrong password is answered
\* INVALID_CREDENTIALS; a request answered MISSING_FIELDS, HWID_REQUIRED or
\* INVALID_CREDENTIALS writes nothing and changes no record.
C9_RejectedLeavesStore ==
  /\ BadCredentials => last.code = "INVALID_CREDENTIALS"
  /\ last.code \in {"MISSING_FIELDS", "HWID_REQUIRED", "INVALID_CREDENTIALS"}
       => (last.saves = 0 /\ file = last.before)

\* A wrong password on an account that is still unbound.
C9_Witness ==
  /\ BadCredentials
  /\ last.code = "INVALID_CREDENTIALS"
  /\ \E u \in RecordsIn(file) : u.username = last.req.username /\ EmptyHwid(u.hwid)

(***************************************************************************)
(* C10                                                                      *)
(***************************************************************************)
\* The last request lacked its username or its password.
FieldMissing ==
  /\ last.code # "NONE"
  /\ (AbsentOrEmpty(last.req.username) \/ AbsentOrEmpty(last.req.password))

\* C10: a request without username or password is answered MISSING_FIELDS,
\* whatever its hwid and the store, without a load or a save.
C10_MissingFieldsNoStoreAccess ==
  FieldMissing
    => (last.code = "MISSING_FIELDS" /\ last.loads = 0 /\ last.saves = 0 /\ file = last.before)

\* The password is missing, the rest would have registered an hwid.
C10_Witness ==
  /\ FieldMissing
  /\ last.req.username = Str(alice)
  /\ BoundHwid(last.req.hwid)
  /\ EmptyHwid(DurableHwid(file, alice))

(***************************************************************************)
(* C11                                                                      *)
(***************************************************************************)
\* The last request carried a username and a password, and an hwid that is
\* absent, empty, white space only or not a string.
HwidMissing ==
  /\ last.code # "NONE"
  /\ ~AbsentOrEmpty(last.req.username)
  /\ ~AbsentOrEmpty(last.req.password)
  /\ ~BoundHwid(last.req.hwid)

\* C11: a request with username and password whose hwid is absent, empty,
\* white space only or not a string is answered HWID_REQUIRED without a load
\* or a save, whether or not the credentials match a record.
C11_HwidRequiredNoStoreAccess ==
  HwidMissing
    => (last.code = "HWID_REQUIRED" /\ last.loads = 0 /\ last.saves = 0 /\ file = last.before)

\* Correct credentials on an unbound account, with a white-space hwid.
C11_Witness ==
  /\ HwidMissing
  /\ last.req.hwid = Str(<<" ">>)
  /\ \E u \in Matching(file, last.req) : EmptyHwid(u.hwid)

(***************************************************************************)
(* C12                                                                      *)
(***************************************************************************)
\* The store the last request's saveUsers was given: the store it loaded,
\* with the hwid of the request in the record of its account.
PostUpdate ==
  LET users == loadUsers(last.before, "read").users
      i == find(users, last.req.username)
  IN  [users EXCEPT ![i].hwid = last.req.hwid]

\* C12: a load that follows a saveUsers, failed part-way or not, sees the whole
\* store as it was before the update or the whole store as updated.
C12_PersistIsAtomic ==
  last.saves = 1
    => loadUsers(file, "read").users \in {loadUsers(last.before, "read").users, PostUpdate}

(***************************************************************************)
(* C13                                                                      *)
(***************************************************************************)
\* The last request passed the field and hwid checks while users.json was
\* absent, unreadable or unparsable.
NoDocument ==
  /\ PassedValidation
  /\ (last.before.kind \in {"absent", "corrupt"} \/ ReadFailed)

\* C13: without a readable document the handler loads an empty store and
\* answers INVALID_CREDENTIALS (401), without a write.
C13_NoDocumentInvalidCredentials ==
  NoDocument
    => /\ last.code = "INVALID_CREDENTIALS"
       /\ last.status = 401
       /\ last.loads = 1
       /\ last.saves = 0
       /\ file = last.before

\* The credentials of a provisioned account, with an unparsable users.json.
C13_Witness ==
  /\ NoDocument
  /\ last.before = Corrupt
  /\ last.req.username = Str(alice)
  /\ last.req.password = Str(pwAlice)
  /\ last.code = "INVALID_CREDENTIALS"

(***************************************************************************)
(* C14                                                                      *)
(***************************************************************************)
\* The (username, password) pairs a load of users.json holding f shows.
Pairs(f) ==
  LET users == loadUsers(f, "read").users
  IN  {<<users[k].username, users[k].password>> : k \in DOMAIN users}

\* C14: no login creates or deletes a record or changes a username or a
\* password: the (username, password) pairs of the durable store stay the same.
C14_RecordsKept == [][Pairs(file') = Pairs(file)]_vars

(***************************************************************************)
(* C15                                                                      *)
(***************************************************************************)
\* What the handler answers, and leaves in users.json, on the last request
\* from the store it started in, when its read ends as r and its write as w.
Rerun(r, w) == login(last.req, last.before, r, w)

\* C15 as stated: a request that ended in a failure outcome ends in the same
\* outcome, with the same store, in every run from the same store and input.
C15_FailuresDeterministic ==
  (last.code # "NONE" /\ ~last.success)
    => \A r \in ReadOutcomes : \A w \in WriteOutcomes :
         Rerun(r, w).code = last.code /\ Rerun(r, w).file = file

\* C15 amended: a request that ended in MISSING_FIELDS, HWID_REQUIRED,
\* INVALID_CREDENTIALS or HWID_MISMATCH ends in the same outcome, with the same
\* store, in every run from the same store and input in which the read of
\* users.json, if the run makes one, ends in the same way.
C15_FailuresDeterministicAmended ==
  last.code \in {"MISSING_FIELDS", "HWID_REQUIRED", "INVALID_CREDENTIALS", "HWID_MISMATCH"}
    => \A r \in ReadOutcomes : \A w \in WriteOutcomes :
         last.read \in {"none", r}
           => (Rerun(r, w).code = last.code /\ Rerun(r, w).file = file)

\* A wrong password on an account that an accepted login would have bound.
C15_Witness ==
  /\ last.code = "INVALID_CREDENTIALS"
  /\ BoundHwid(last.req.hwid)
  /\ \E u \in RecordsIn(last.before) : u.username = last.req.username /\ EmptyHwid(u.hwid)

(***************************************************************************)
(* C16                                                                      *)
(***************************************************************************)
\* The last request: correct credentials, on an account bound to an hwid that
\* differs from the supplied one by surrounding white space only.
WhitespaceVariantLogin ==
  /\ PassedValidation
  /\ \E u \in Matching(last.before, last.req) :
       /\ BoundHwid(u.hwid)
       /\ u.hwid # last.req.hwid
       /\ trim(u.hwid.s) = trim(last.req.hwid.s)

\* C16 as stated: a registration stores the hwid as received, untrimmed, and
\* a later login whose hwid differs from the stored one by surrounding white
\* space only is answered HWID_MISMATCH.
C16_HwidStoredAndComparedUntrimmed ==
  /\ last.code = "HWID_REGISTERED"
       => DurableHwid(file, AccountOf(last.req)) = last.req.hwid
  /\ WhitespaceVariantLogin => last.code = "HWID_MISMATCH"

\* C16 amended: the same, where the later login is answered HWID_MISMATCH when
\* its load reads the file and INVALID_CREDENTIALS when the read fails, and an
\* hwid stored by a write that was reported as failed is untrimmed too.
C16_HwidStoredAndComparedUntrimmedAmended ==
  /\ (last.saves = 1 /\ DurableHwid(file, AccountOf(last.req)) # DurableHwid(last.before, AccountOf(last.req))
        /\ DurableHwid(file, AccountOf(last.req)) # NoRecord)
       => DurableHwid(file, AccountOf(last.req)) = last.req.hwid
  /\ last.code = "HWID_REGISTERED"
       => DurableHwid(file, AccountOf(last.req)) = last.req.hwid
  /\ WhitespaceVariantLogin
       => last.code = IF ReadFailed THEN "INVALID_CREDENTIALS" ELSE "HWID_MISMATCH"

\* " x" was registered as received; a login with "x" is rejected.
C16_Witness ==
  /\ WhitespaceVariantLogin
  /\ last.code = "HWID_MISMATCH"
  /\ last.regBefore = Str(<<" ", "x">>)
  /\ last.req.hwid = Str(<<"x">>)
  /\ DurableHwid(file, AccountOf(last.req)) = Str(<<" ", "x">>)

(***************************************************************************)
(* C17                                                                      *)
(***************************************************************************)
\* C17: a login for one username leaves what the durable store shows for
\* every other account as it was, an hwid persisted for it included.
C17_OtherAccountsKept ==
  [][\A a \in Accounts :
       Str(a) # last'.req.username => DurableHwid(file', a) = DurableHwid(file, a)]_vars

(***************************************************************************)
(* C18                                                                      *)
(***************************************************************************)
\* C18: once a request on an account was answered HWID_REGISTERED, no other
\* request on that account is, whatever its hwid.
C18_RegisteredOnce == last.regBefore # Undef => last.code # "HWID_REGISTERED"

\* The registered hwid is sent again, with correct credentials: OK.
C18_Witness ==
  /\ last.regBefore # Undef
  /\ last.req.hwid = last.regBefore
  /\ last.req.password = Str(PasswordOf(AccountOf(last.req)))
  /\ last.code = "OK"

(***************************************************************************)
(* C19                                                                      *)
(***************************************************************************)
\* A record that the account has in users.json holding f, with a bound hwid.
ShownBound(f, a) == BoundHwid(DurableHwid(f, a))

\* C19: an hwid the login path writes is a string that is not empty after
\* trimming, and a record it was written to never passes the unbound test
\* (missing, empty or white space only) again.
C19_WrittenHwidNeverUnbound ==
  last.code # "NONE" =>
    \A a \in Accounts :
      /\ (DurableHwid(file, a) # DurableHwid(last.before, a) /\ DurableHwid(file, a) # NoRecord)
           => (ShownBound(file, a) /\ DurableHwid(file, a) = last.req.hwid)
      /\ (ShownBound(last.before, a) /\ DurableHwid(file, a) # NoRecord)
           => ShownBound(file, a)
      /\ registered[a] # Undef => BoundHwid(registered[a])

\* An hwid with a blank in it was written, and a later login found it bound.
C19_Witness ==
  /\ last.regBefore = Str(<<"x", " ">>)
  /\ last.code \in {"OK", "HWID_MISMATCH"}
  /\ DurableHwid(file, AccountOf(last.req)) = Str(<<"x", " ">>)

====
